---- MODULE Spec2Model ----
(***************************************************************************)
(* Model of archive/flask-backend/app.py: the Flask handler index() and    *)
(* the helpers it calls (transcribe_audio, meeting_minutes, the three      *)
(* chat extractors, sentiment_analysis, save_as_docx, handle_pasted_text). *)
(*                                                                         *)
(* Every request is served by its own thread of the Flask server; the      *)
(* handler's locals are per thread, the working directory (the temporary   *)
(* audio file and the written .docx files) is shared by all threads.       *)
(* Strings the code takes apart (file names) are sequences of one-char     *)
(* strings; strings the code only passes along (texts, flash messages)     *)
(* are TLA+ strings.                                                       *)
(***************************************************************************)
EXTENDS Integers, Sequences, FiniteSets, TLC

VARIABLES
    pc,                 \* per thread: where the thread is in index()
    req,                \* per thread: the HTTP request being served
    transcription,      \* per thread: transcribe_audio's local, Whisper's answer
    transcription_text, \* per thread: index's local
    mm,                 \* per thread: meeting_minutes' locals
    minutes,            \* per thread: index's local `minutes`
    polarity,           \* per thread: sentiment_analysis' local
    sent,               \* per thread: the bytes handed to the transcription API
    filename,           \* per thread: index's local `filename`
    doc,                \* per thread: save_as_docx's local `doc`
    resp,               \* per thread: the HTTP response
    log,                \* per thread: the calls made while serving the request
    api_calls,          \* per thread: requests sent to the OpenAI API
    temp,               \* shared: content of 'temp_audio_file.wav', NONE if absent
    docs                \* shared: the .docx files in the working directory

locals == <<transcription, transcription_text, mm, minutes, polarity, sent, filename, doc>>
vars == <<pc, req, locals, resp, log, api_calls, temp, docs>>

(* ---------------------------- bounds ----------------------------------- *)

\* number of request threads the server runs
NumReqs == 2
\* a file name has at most this many dot-separated components
MaxParts == 3
\* TextBlob's polarity in [-1, 1], in steps of 1/PolScale
PolScale == 2

Reqs == 1..NumReqs

\* Python's None / "no value yet"
NONE == "<none>"

(* ---------------------------- strings ---------------------------------- *)

UpperChars == <<"A","B","C","D","E","F","G","H","I","J","K","L","M",
                "N","O","P","Q","R","S","T","U","V","W","X","Y","Z">>
LowerChars == <<"a","b","c","d","e","f","g","h","i","j","k","l","m",
                "n","o","p","q","r","s","t","u","v","w","x","y","z">>

\* str.lower() on one character
LowerChar(c) ==
    IF \E i \in 1..Len(UpperChars) : UpperChars[i] = c
    THEN LowerChars[CHOOSE i \in 1..Len(UpperChars) : UpperChars[i] = c]
    ELSE c

\* str.lower()
Lower(s) == [i \in 1..Len(s) |-> LowerChar(s[i])]

\* str.split(sep): always at least one component, empty components kept
RECURSIVE Split(_, _)
Split(s, sep) ==
    IF \A i \in 1..Len(s) : s[i] # sep
    THEN <<s>>
    ELSE LET i == CHOOSE k \in 1..Len(s) :
                      s[k] = sep /\ \A j \in 1..(k - 1) : s[j] # sep
         IN  <<SubSeq(s, 1, i - 1)>> \o Split(SubSeq(s, i + 1, Len(s)), sep)

\* sep.join(parts)
RECURSIVE Join(_, _)
Join(parts, sep) ==
    IF Len(parts) = 0 THEN <<>>
    ELSE IF Len(parts) = 1 THEN parts[1]
    ELSE parts[1] \o <<sep>> \o Join(Tail(parts), sep)

\* the literals '.docx' and 'text_based.docx'
DocxExt == <<".", "d", "o", "c", "x">>
TextBasedName == <<"t", "e", "x", "t", "_", "b", "a", "s", "e", "d">> \o DocxExt

\* allowed_formats in index()
allowed_formats ==
    { <<"m","4","a">>, <<"m","p","3">>, <<"w","e","b","m">>, <<"m","p","4">>,
      <<"m","p","g","a">>, <<"w","a","v">>, <<"m","p","e","g">>,
      <<"o","g","g">>, <<"o","g","a">>, <<"f","l","a","c">> }

\* the format check without .lower()
FormatAllowedNoLower(name) ==
    LET parts == Split(name, ".")
    IN  parts[Len(parts)] \in allowed_formats

\* audio_file.filename.split('.')[-1].lower() in allowed_formats
FormatAllowed(name) ==
    LET parts == Split(name, ".")
    IN  Lower(parts[Len(parts)]) \in allowed_formats

\* audio_file.filename.split('.')[0] + '.docx'
AudioDocxName(name) == Split(name, ".")[1] \o DocxExt

(* ---------------------------- inputs ----------------------------------- *)

\* components file names are built from
Words == { <<>>, <<"a">>, <<"m","p","3">>, <<"O","g","G">>, <<"p","d","f">> }

RECURSIVE WordSeqs(_)
WordSeqs(n) ==
    IF n = 0 THEN { <<>> }
    ELSE { <<w>> \o t : w \in Words, t \in WordSeqs(n - 1) }

\* every name of 1..MaxParts components, the empty name included
FileNames == { Join(ws, ".") : ws \in UNION { WordSeqs(n) : n \in 1..MaxParts } }

\* names used when requests overlap
FewNames == { <<"a", ".", "m","p","3">>, <<"a", ".", "p","d","f">> }

\* uploaded audio contents
Blobs == {"b1", "b2"}

\* texts: pasted text, Whisper's and the chat model's answers
Texts == {"", "t"}
FewTexts == {"t"}

Polarities == (0 - PolScale)..PolScale

(* ---------------------------- requests --------------------------------- *)

MkReq(method, input_type, has_file, fname, bytes, pasted_text) ==
    [method |-> method, input_type |-> input_type, has_file |-> has_file,
     filename |-> fname, bytes |-> bytes, pasted_text |-> pasted_text]

NoReq == MkReq(NONE, NONE, FALSE, <<>>, NONE, NONE)

\* the requests a client can send to '/': GET, and POST forms with the fields
\* present or missing
Requests(names, blobs, texts) ==
    { MkReq("GET", NONE, FALSE, <<>>, NONE, NONE),
      MkReq("POST", NONE, FALSE, <<>>, NONE, NONE),
      MkReq("POST", "other", FALSE, <<>>, NONE, NONE),
      MkReq("POST", "audio", FALSE, <<>>, NONE, NONE) }
    \cup { MkReq("POST", "audio", TRUE, n, b, NONE) : n \in names, b \in blobs }
    \cup { MkReq("POST", "text", FALSE, <<>>, NONE, t) : t \in texts \cup {NONE} }

\* the requests served one at a time (every name and text, one upload), and
\* the requests served overlapping (few names and texts, every upload)
AllRequests == Requests(FileNames, {"b1"}, Texts)
FewRequests == Requests(FewNames, Blobs, FewTexts)

(* ---------------------------- responses -------------------------------- *)

MkResp(kind, flash, fname, mins) ==
    [kind |-> kind, flash |-> flash, filename |-> fname, minutes |-> mins]

NoMinutes ==
    [abstract_summary |-> NONE, key_points |-> NONE, action_items |-> NONE,
     sentiment |-> NONE]

NoResp == MkResp(NONE, NONE, <<>>, NoMinutes)

\* flash(msg, "error"); return redirect(request.url)
Redirect(msg) == MkResp("redirect", msg, <<>>, NoMinutes)
\* return render_template('index.html')
Form == MkResp("form", NONE, <<>>, NoMinutes)
\* request.form[key] on a missing key: werkzeug aborts the request with 400
BadRequest == MkResp("error400", NONE, <<>>, NoMinutes)
\* an exception leaves index(): Flask answers 500, nothing is flashed
Uncaught(exc) == MkResp("error500", exc, <<>>, NoMinutes)

\* a call made by the handler: what was called, on which text, and whether it
\* returned (ok) or raised
Ev(op, text, ok) == [op |-> op, text |-> text, ok |-> ok]

Ops(r) == { log[r][i].op : i \in 1..Len(log[r]) }

\* the call names of the three chat extractors, of the four extractors, and of
\* the calls that go to the OpenAI API
ChatOps == {"abstract_summary", "key_points", "action_items"}
Extractors == ChatOps \cup {"sentiment"}
ApiOps == ChatOps \cup {"transcribe"}

(* ---------------------------- pure helpers ----------------------------- *)

\* handle_pasted_text
handle_pasted_text(text) == text

\* the three checks of the audio branch of index(); "ok" when all pass
AudioCheck(rq) ==
    IF ~rq.has_file THEN "Please upload an audio file"
    ELSE IF rq.filename = <<>> THEN "No selected file"
    ELSE IF ~FormatAllowed(rq.filename) THEN "Invalid file format."
    ELSE "ok"

\* the sign rule with polarity 0 counted as positive
SentimentLabelNonNeg(p) ==
    IF p >= 0 THEN "Positive" ELSE "Negative"

\* the sign rule of sentiment_analysis
SentimentLabel(p) ==
    IF p > 0 THEN "Positive"
    ELSE IF p < 0 THEN "Negative"
    ELSE "Neutral"

\* Python truthiness of a str
Truthy(s) == s # ""

Heading(text) == [kind |-> "heading", text |-> text]
Paragraph(text) == [kind |-> "paragraph", text |-> text]
PageBreak == [kind |-> "page_break", text |-> ""]

\* save_as_docx with the truthiness test left out of the Action Items section
BuildDocNoPlaceholder(text, m) ==
    << Heading("Meeting Minutes"), Paragraph(text), PageBreak,
       Heading("Abstract Summary"), Paragraph(m.abstract_summary), PageBreak,
       Heading("Key Points"),
       Paragraph(IF Truthy(m.key_points) THEN m.key_points
                 ELSE "No information available."),
       PageBreak,
       Heading("Action Items"), Paragraph(m.action_items), PageBreak,
       Heading("Sentiment"), Paragraph(m.sentiment) >>

\* the body save_as_docx builds before doc.save(filename)
BuildDoc(text, m) ==
    << Heading("Meeting Minutes"), Paragraph(text), PageBreak,
       Heading("Abstract Summary"), Paragraph(m.abstract_summary), PageBreak,
       Heading("Key Points"),
       Paragraph(IF Truthy(m.key_points) THEN m.key_points
                 ELSE "No information available."),
       PageBreak,
       Heading("Action Items"),
       Paragraph(IF Truthy(m.action_items) THEN m.action_items
                 ELSE "No information available."),
       PageBreak,
       Heading("Sentiment"), Paragraph(m.sentiment) >>

\* doc.save(filename): the file is created, or silently replaced
WriteFile(fs, fname, d) ==
    { f \in fs : f.name # fname } \cup { [name |-> fname, doc |-> d] }

\* filename = ... in the audio and in the text branch of index()
DocxName(rq) ==
    IF rq.input_type = "audio" THEN AudioDocxName(rq.filename) ELSE TextBasedName

(* ---------------------------- initial state ---------------------------- *)

\* a document left in the working directory by an earlier run
OldDoc == BuildDoc("old", [abstract_summary |-> "old", key_points |-> "old",
                           action_items |-> "old", sentiment |-> "Neutral"])

\* NONE and NoReq stand for "no value": they are none of the texts, uploads,
\* call names and requests that occur
Domains ==
    /\ \A t \in Texts : t # NONE
    /\ \A t \in FewTexts : t # NONE
    /\ \A b \in Blobs : b \notin {NONE, "b0"}
    /\ \A op \in ChatOps : op # NONE
    /\ \A op \in Extractors : op # NONE
    /\ \A op \in ApiOps : op # NONE
    /\ \A f \in allowed_formats : Lower(f) = f
    /\ \A rq \in AllRequests : rq # NoReq
    /\ \A rq \in FewRequests : rq # NoReq

\* The server has just started: no request is being served. The working
\* directory is whatever earlier runs left: possibly a temporary audio file,
\* possibly a document.
Init ==
    /\ Domains
    /\ pc = [r \in Reqs |-> "idle"]
    /\ req = [r \in Reqs |-> NoReq]
    /\ transcription = [r \in Reqs |-> NONE]
    /\ transcription_text = [r \in Reqs |-> NONE]
    /\ mm = [r \in Reqs |-> NoMinutes]
    /\ minutes = [r \in Reqs |-> NoMinutes]
    /\ polarity = [r \in Reqs |-> 0]
    /\ sent = [r \in Reqs |-> NONE]
    /\ filename = [r \in Reqs |-> <<>>]
    /\ doc = [r \in Reqs |-> <<>>]
    /\ resp = [r \in Reqs |-> NoResp]
    /\ log = [r \in Reqs |-> <<>>]
    /\ api_calls = [r \in Reqs |-> 0]
    /\ \/ temp = NONE /\ docs = {}
       \/ /\ temp = "b0"
          /\ docs = { [name |-> <<"a">> \o DocxExt, doc |-> OldDoc],
                      [name |-> TextBasedName, doc |-> OldDoc] }

(* ---------------------------- actions ---------------------------------- *)

\* the request ends with response x
Finish(r, x) ==
    /\ resp' = [resp EXCEPT ![r] = x]
    /\ pc' = [pc EXCEPT ![r] = "done"]

Goto(r, label) ==
    /\ pc' = [pc EXCEPT ![r] = label]
    /\ UNCHANGED resp

\* a local call: no request leaves the process
Logged(r, op, text, ok) ==
    /\ log' = [log EXCEPT ![r] = Append(@, Ev(op, text, ok))]
    /\ UNCHANGED api_calls

\* a call that sends one request to the OpenAI API
ApiLogged(r, op, text, ok) ==
    /\ log' = [log EXCEPT ![r] = Append(@, Ev(op, text, ok))]
    /\ api_calls' = [api_calls EXCEPT ![r] = @ + 1]

Unlogged == UNCHANGED <<log, api_calls>>

\* index() from its entry up to the first call that leaves the handler's own
\* data: method and input_type dispatch, the three audio checks, and for
\* pasted text the call of handle_pasted_text.
Dispatch(r, rq) ==
    /\ pc[r] = "idle"
    /\ req' = [req EXCEPT ![r] = rq]
    /\ UNCHANGED <<transcription, mm, minutes, polarity, sent, filename, doc, temp, docs>>
    /\ IF rq.method # "POST"
       THEN Finish(r, Form) /\ UNCHANGED transcription_text /\ Unlogged
       ELSE IF rq.input_type = NONE
       THEN Finish(r, BadRequest) /\ UNCHANGED transcription_text /\ Unlogged
       ELSE IF rq.input_type = "audio"
       THEN /\ UNCHANGED transcription_text /\ Unlogged
            /\ IF AudioCheck(rq) = "ok"
               THEN Goto(r, "save_temp")
               ELSE Finish(r, Redirect(AudioCheck(rq)))
       ELSE IF rq.input_type = "text"
       THEN IF rq.pasted_text = NONE
            THEN Finish(r, BadRequest) /\ UNCHANGED transcription_text /\ Unlogged
            ELSE /\ transcription_text' =
                        [transcription_text EXCEPT ![r] = handle_pasted_text(rq.pasted_text)]
                 /\ Logged(r, "handle_pasted_text", rq.pasted_text, TRUE)
                 /\ Goto(r, "abstract_summary")
       ELSE Finish(r, Form) /\ UNCHANGED transcription_text /\ Unlogged

\* a client sends one of the requests `rqs` and a free thread takes it
Receive(r, rqs) ==
    /\ pc[r] = "idle"
    /\ \E rq \in rqs : Dispatch(r, rq)

\* transcribe_audio: audio_file.save(temp_file_path)
SaveTemp(r) ==
    /\ pc[r] = "save_temp"
    /\ temp' = req[r].bytes
    /\ Logged(r, "save_temp", NONE, TRUE)
    /\ Goto(r, "transcribe")
    /\ UNCHANGED <<req, locals, docs>>

\* transcribe_audio: the with-block, when the API answers. open() raises
\* FileNotFoundError when the file is gone, which index() does not catch.
Transcribe(r, answers) ==
    /\ pc[r] = "transcribe"
    /\ UNCHANGED <<req, transcription_text, mm, minutes, polarity, filename, doc, temp, docs>>
    /\ IF temp = NONE
       THEN /\ Finish(r, Uncaught("FileNotFoundError"))
            /\ UNCHANGED <<transcription, sent>> /\ Unlogged
       ELSE /\ sent' = [sent EXCEPT ![r] = temp]
            /\ ApiLogged(r, "transcribe", NONE, TRUE)
            /\ \E t \in answers : transcription' = [transcription EXCEPT ![r] = t]
            /\ Goto(r, "remove_temp")

\* transcribe_audio: the with-block, when the API raises OpenAIError; the
\* exception leaves transcribe_audio before os.remove and index() catches it
TranscribeFail(r) ==
    /\ pc[r] = "transcribe"
    /\ temp # NONE
    /\ sent' = [sent EXCEPT ![r] = temp]
    /\ ApiLogged(r, "transcribe", NONE, FALSE)
    /\ Finish(r, Redirect("Error during audio transcription. Please try again later."))
    /\ UNCHANGED <<req, transcription, transcription_text, mm, minutes, polarity,
                   filename, doc, temp, docs>>

\* transcribe_audio: os.remove(temp_file_path); return transcription['text']
RemoveTemp(r) ==
    /\ pc[r] = "remove_temp"
    /\ UNCHANGED <<req, transcription, mm, minutes, polarity, sent, filename, doc, docs>>
    /\ IF temp = NONE
       THEN /\ Finish(r, Uncaught("FileNotFoundError"))
            /\ UNCHANGED <<transcription_text, temp>> /\ Unlogged
       ELSE /\ temp' = NONE
            /\ Logged(r, "remove_temp", NONE, TRUE)
            /\ transcription_text' = [transcription_text EXCEPT ![r] = transcription[r]]
            /\ Goto(r, "abstract_summary")

\* one of the three chat extractors of meeting_minutes returns `out`
ChatCall(r, field, next, out) ==
    /\ pc[r] = field
    /\ mm' = [mm EXCEPT ![r][field] = out]
    /\ ApiLogged(r, field, transcription_text[r], TRUE)
    /\ Goto(r, next)
    /\ UNCHANGED <<req, transcription, transcription_text, minutes, polarity, sent,
                   filename, doc, temp, docs>>

\* meeting_minutes: abstract_summary = abstract_summary_extraction(...)
AbstractSummary(r, outs) ==
    \E o \in outs : ChatCall(r, "abstract_summary", "key_points", o)

\* meeting_minutes: key_points = key_points_extraction(...)
KeyPoints(r, outs) ==
    \E o \in outs : ChatCall(r, "key_points", "action_items", o)

\* meeting_minutes returning after action_item_extraction, without the
\* sentiment call
ActionItemsSkipSentiment(r, outs) ==
    \E o \in outs : ChatCall(r, "action_items", "save_docx", o)

\* meeting_minutes: action_items = action_item_extraction(...)
ActionItems(r, outs) ==
    \E o \in outs : ChatCall(r, "action_items", "sentiment", o)

\* an extractor that catches the API error and goes on with an empty value
ChatFailSwallowed(r) ==
    /\ pc[r] \in ChatOps
    /\ mm' = [mm EXCEPT ![r][pc[r]] = ""]
    /\ ApiLogged(r, pc[r], transcription_text[r], FALSE)
    /\ Goto(r, CASE pc[r] = "abstract_summary" -> "key_points"
                 [] pc[r] = "key_points" -> "action_items"
                 [] OTHER -> "sentiment")
    /\ UNCHANGED <<req, transcription, transcription_text, minutes, polarity, sent,
                   filename, doc, temp, docs>>

\* openai.ChatCompletion.create raises in one of the three extractors; neither
\* meeting_minutes nor index() has a handler around the call
ChatFail(r) ==
    /\ pc[r] \in ChatOps
    /\ ApiLogged(r, pc[r], transcription_text[r], FALSE)
    /\ Finish(r, Uncaught("OpenAIError"))
    /\ UNCHANGED <<req, locals, temp, docs>>

\* meeting_minutes: sentiment = sentiment_analysis(...), and the return of the
\* dict to index(); p is the polarity TextBlob computes for the text
Sentiment(r, p) ==
    /\ pc[r] = "sentiment"
    /\ polarity' = [polarity EXCEPT ![r] = p]
    /\ minutes' = [minutes EXCEPT ![r] = [mm[r] EXCEPT !.sentiment = SentimentLabel(p)]]
    /\ Logged(r, "sentiment", transcription_text[r], TRUE)
    /\ Goto(r, "save_docx")
    /\ UNCHANGED <<req, transcription, transcription_text, mm, sent, filename, doc,
                   temp, docs>>

\* index(): filename = ...; save_as_docx(transcription_text, minutes, filename)
SaveDocx(r) ==
    /\ pc[r] = "save_docx"
    /\ filename' = [filename EXCEPT ![r] = DocxName(req[r])]
    /\ doc' = [doc EXCEPT ![r] = BuildDoc(transcription_text[r], minutes[r])]
    /\ docs' = WriteFile(docs, DocxName(req[r]),
                         BuildDoc(transcription_text[r], minutes[r]))
    /\ Logged(r, "save_as_docx", transcription_text[r], TRUE)
    /\ Goto(r, "respond")
    /\ UNCHANGED <<req, transcription, transcription_text, mm, minutes, polarity,
                   sent, temp>>

\* save_as_docx: doc.save(filename) raises (the file cannot be written);
\* index() has no handler around the call
SaveDocxFail(r) ==
    /\ pc[r] = "save_docx"
    /\ filename' = [filename EXCEPT ![r] = DocxName(req[r])]
    /\ doc' = [doc EXCEPT ![r] = BuildDoc(transcription_text[r], minutes[r])]
    /\ Logged(r, "save_as_docx", transcription_text[r], FALSE)
    /\ Finish(r, Uncaught("OSError"))
    /\ UNCHANGED <<req, transcription, transcription_text, mm, minutes, polarity,
                   sent, temp, docs>>

\* index(): flash(..., "success"); return render_template('result.html', ...)
Respond(r) ==
    /\ pc[r] = "respond"
    /\ Logged(r, "render_template", NONE, TRUE)
    /\ Finish(r, MkResp("result", "Meeting minutes extracted and saved successfully!",
                        filename[r], minutes[r]))
    /\ UNCHANGED <<req, locals, temp, docs>>

(* ---------------------------- specifications --------------------------- *)

\* no other thread is serving a request
Alone(r) == \A q \in Reqs \ {r} : pc[q] = "idle"

\* One request at a time, over the whole input domain.
Next ==
    \E r \in Reqs :
        \/ Alone(r) /\ Receive(r, AllRequests)
        \/ Alone(r) /\ SaveTemp(r)
        \/ Alone(r) /\ Transcribe(r, Texts)
        \/ Alone(r) /\ TranscribeFail(r)
        \/ Alone(r) /\ RemoveTemp(r)
        \/ Alone(r) /\ AbstractSummary(r, Texts)
        \/ Alone(r) /\ KeyPoints(r, Texts)
        \/ Alone(r) /\ ActionItems(r, Texts)
        \/ Alone(r) /\ ChatFail(r)
        \/ Alone(r) /\ \E p \in Polarities : Sentiment(r, p)
        \/ Alone(r) /\ SaveDocx(r)
        \/ Alone(r) /\ SaveDocxFail(r)
        \/ Alone(r) /\ Respond(r)

Spec == Init /\ [][Next]_vars

\* The threaded server: requests overlap in every interleaving of their steps.
NextConc ==
    \E r \in Reqs :
        \/ Receive(r, FewRequests)
        \/ SaveTemp(r)
        \/ Transcribe(r, FewTexts)
        \/ TranscribeFail(r)
        \/ RemoveTemp(r)
        \/ AbstractSummary(r, FewTexts)
        \/ KeyPoints(r, FewTexts)
        \/ ActionItems(r, FewTexts)
        \/ ChatFail(r)
        \/ Sentiment(r, 0)
        \/ SaveDocx(r)
        \/ SaveDocxFail(r)
        \/ Respond(r)

SpecConc == Init /\ [][NextConc]_vars

(* ---------------------------- properties ------------------------------- *)

IsAudioPost(r) == req[r].method = "POST" /\ req[r].input_type = "audio"
IsTextPost(r) == req[r].method = "POST" /\ req[r].input_type = "text"

\* the places of the dots of a name
Dots(s) == { i \in 1..Len(s) : s[i] = "." }
Largest(S) == CHOOSE m \in S : \A k \in S : k <= m

\* what follows the last dot of a name; the whole name when it has no dot
LastComponent(s) ==
    IF Dots(s) = {} THEN s ELSE SubSeq(s, Largest(Dots(s)) + 1, Len(s))

\* a name without its final extension; the whole name when it has no dot
Stem(s) ==
    IF Dots(s) = {} THEN s ELSE SubSeq(s, 1, Largest(Dots(s)) - 1)

\* the place of the first call of `op` by thread r
Pos(r, op) == CHOOSE i \in 1..Len(log[r]) :
                  log[r][i].op = op /\ \A j \in 1..(i - 1) : log[r][j].op # op

\* a chat extractor raised while thread r served its request
ChatFailed(r) == \E i \in 1..Len(log[r]) : log[r][i].op \in ChatOps /\ ~log[r][i].ok

\* some call raised while thread r served its request
SomeCallFailed(r) == \E i \in 1..Len(log[r]) : ~log[r][i].ok

\* the working directory holds nothing but what earlier runs left
NothingWritten == temp \notin Blobs /\ \A f \in docs : f.doc = OldDoc

\* C1: once an audio request that reached transcribe_audio has completed,
\* the temporary audio file no longer exists, whether transcription
\* succeeded or raised.
C1_TempFileReleased ==
    \A r \in Reqs :
        (pc[r] = "done" /\ "save_temp" \in Ops(r)) => temp = NONE

\* C2: when one of the three chat extractors raises, meeting_minutes returns
\* no record, save_as_docx is not invoked and no document is written or
\* overwritten.
C2_NoRenderAfterChatFailure ==
    \A r \in Reqs :
        ChatFailed(r) =>
            /\ minutes[r] = NoMinutes
            /\ "save_as_docx" \notin Ops(r)
            /\ doc[r] = <<>>
            /\ \A f \in docs : f.doc = OldDoc
            /\ pc[r] = "done"

C2_Witness ==
    \E r \in Reqs :
        /\ ChatFailed(r)
        /\ "abstract_summary" \in Ops(r)
        /\ ~log[r][Len(log[r])].ok
        /\ log[r][Len(log[r])].op = "action_items"
        /\ docs # {}

\* C3: every error raised inside a POST request (validation, transcription,
\* extraction, document write) ends the request with a flash message and a
\* redirect to the form.
C3_AllErrorsRedirect ==
    \A r \in Reqs :
        (/\ pc[r] = "done"
         /\ req[r].method = "POST"
         /\ \/ SomeCallFailed(r)
            \/ IsAudioPost(r) /\ AudioCheck(req[r]) # "ok")
        => (resp[r].kind = "redirect" /\ resp[r].flash # NONE)

\* C4: an audio POST is accepted exactly when a file is supplied whose name
\* is not empty and whose last dot-separated component, lower-cased, is in
\* the allow-list; a rejected request ends in a redirect with an error
\* message, having called nothing and created no temporary file or document.
C4_AudioValidation ==
    \A r \in Reqs :
        IsAudioPost(r) =>
            LET rq == req[r]
                valid == /\ rq.has_file
                         /\ rq.filename # <<>>
                         /\ Lower(LastComponent(rq.filename)) \in allowed_formats
                accepted == pc[r] = "save_temp" \/ "save_temp" \in Ops(r)
            IN  /\ accepted <=> valid
                /\ ~valid =>
                      /\ pc[r] = "done"
                      /\ resp[r].kind = "redirect"
                      /\ resp[r].flash \notin {NONE, "ok"}
                      /\ log[r] = <<>>
                      /\ api_calls[r] = 0
                      /\ doc[r] = <<>>
                      /\ NothingWritten

C4_Witness ==
    \E r \in Reqs :
        /\ IsAudioPost(r)
        /\ req[r].has_file
        /\ Len(Split(req[r].filename, ".")) = 3
        /\ Lower(Split(req[r].filename, ".")[1]) \in allowed_formats
        /\ resp[r].kind = "redirect"

\* C5: with requests served concurrently, each request transcribes exactly
\* the audio bytes it uploaded, and no request finds its temporary file
\* deleted by another.
C5_TempFilePrivate ==
    \A r \in Reqs :
        /\ sent[r] # NONE => sent[r] = req[r].bytes
        /\ resp[r] # Uncaught("FileNotFoundError")

\* C6: a text POST with empty pasted_text ends in a redirect with an error
\* message, and no extractor or renderer is invoked for it.
C6_EmptyTextRejected ==
    \A r \in Reqs :
        (pc[r] = "done" /\ IsTextPost(r) /\ req[r].pasted_text = "")
        => /\ resp[r].kind = "redirect"
           /\ Ops(r) \cap (Extractors \cup {"save_as_docx"}) = {}

\* C7: the document is written only after all four extractors have returned
\* on the request's transcript, which for audio comes from a transcription
\* made before them and for text is made without any transcription; the
\* result view is returned only after the document has been written.
C7_PipelineOrder ==
    \A r \in Reqs :
        /\ "save_as_docx" \in Ops(r) =>
              /\ log[r][Pos(r, "save_as_docx")].text = transcription_text[r]
              /\ \A e \in Extractors :
                    /\ e \in Ops(r)
                    /\ Pos(r, e) < Pos(r, "save_as_docx")
                    /\ log[r][Pos(r, e)].ok
                    /\ log[r][Pos(r, e)].text = transcription_text[r]
              /\ IF IsAudioPost(r)
                 THEN /\ "transcribe" \in Ops(r)
                      /\ log[r][Pos(r, "transcribe")].ok
                      /\ \A e \in Extractors : Pos(r, "transcribe") < Pos(r, e)
                      /\ transcription_text[r] = transcription[r]
                 ELSE /\ "transcribe" \notin Ops(r)
                      /\ "handle_pasted_text" \in Ops(r)
                      /\ \A e \in Extractors : Pos(r, "handle_pasted_text") < Pos(r, e)
                      /\ transcription_text[r] = req[r].pasted_text
        /\ resp[r].kind = "result" =>
              /\ "save_as_docx" \in Ops(r)
              /\ log[r][Pos(r, "save_as_docx")].ok
              /\ Pos(r, "save_as_docx") < Pos(r, "render_template")
              /\ Pos(r, "render_template") = Len(log[r])

C7_Witness ==
    \E r \in Reqs :
        /\ resp[r].kind = "result"
        /\ IsAudioPost(r)
        /\ Len(log[r]) = 9

\* C8: the result's filename is the uploaded name without its final
\* extension, followed by '.docx', also for names with several dots; for
\* pasted text it is 'text_based.docx'.
C8_DocxNameIsStem ==
    \A r \in Reqs :
        resp[r].kind = "result" =>
            resp[r].filename =
                IF IsAudioPost(r) THEN Stem(req[r].filename) \o DocxExt
                ELSE TextBasedName

\* the headings of a document body, in order
Headings(d) == SelectSeq(d, LAMBDA e : e.kind = "heading")

\* the text of the paragraph that follows the heading h
BodyOf(d, h) ==
    LET i == CHOOSE k \in 1..Len(d) : d[k] = Heading(h) IN d[i + 1].text

\* C9: save_as_docx writes the five sections Meeting Minutes (the transcript),
\* Abstract Summary, Key Points, Action Items, Sentiment in this order; Key
\* Points and Action Items each read 'No information available.' exactly
\* when their field is empty, every other body is the given value.
C9_FiveSections ==
    \A r \in Reqs :
        doc[r] # <<>> =>
            LET d == doc[r]
                m == minutes[r]
            IN  /\ Headings(d) = << Heading("Meeting Minutes"), Heading("Abstract Summary"),
                                    Heading("Key Points"), Heading("Action Items"),
                                    Heading("Sentiment") >>
                /\ \A i \in 1..Len(d) :
                      d[i].kind = "heading" => (i < Len(d) /\ d[i + 1].kind = "paragraph")
                /\ Cardinality({ i \in 1..Len(d) : d[i].kind = "paragraph" }) = 5
                /\ BodyOf(d, "Meeting Minutes") = transcription_text[r]
                /\ BodyOf(d, "Abstract Summary") = m.abstract_summary
                /\ BodyOf(d, "Key Points") =
                      (IF m.key_points = "" THEN "No information available."
                       ELSE m.key_points)
                /\ BodyOf(d, "Action Items") =
                      (IF m.action_items = "" THEN "No information available."
                       ELSE m.action_items)
                /\ BodyOf(d, "Sentiment") = m.sentiment
                /\ log[r][Pos(r, "save_as_docx")].ok =>
                      [name |-> filename[r], doc |-> d] \in docs

C9_Witness ==
    \E r \in Reqs :
        /\ doc[r] # <<>>
        /\ minutes[r].key_points = ""
        /\ minutes[r].action_items = "t"
        /\ [name |-> filename[r], doc |-> doc[r]] \in docs

\* C10: the sentiment label is Positive, Negative or Neutral as the polarity
\* is above, below or equal to zero, and computing it sends nothing to the
\* API: the API has been called once per transcription and chat extraction.
C10_SignRule ==
    \A r \in Reqs :
        /\ "sentiment" \in Ops(r) =>
              \/ polarity[r] > 0 /\ minutes[r].sentiment = "Positive"
              \/ polarity[r] < 0 /\ minutes[r].sentiment = "Negative"
              \/ polarity[r] = 0 /\ minutes[r].sentiment = "Neutral"
        /\ api_calls[r] =
              Cardinality({ i \in 1..Len(log[r]) : log[r][i].op \in ApiOps })

C10_Witness ==
    \E r \in Reqs :
        /\ "sentiment" \in Ops(r)
        /\ polarity[r] = 0
        /\ minutes[r].sentiment = "Neutral"
        /\ api_calls[r] = 4

====
